---- MODULE Spec2Model ----
(***************************************************************************)
(* Model of koji_containerbuild/plugins/builder_containerbuild.py:         *)
(* BuildContainerTask (the orchestrator, method buildContainer) and        *)
(* CreateContainerTask (the per-arch task, method createContainer).        *)
(*                                                                         *)
(* Representation choices:                                                 *)
(*  - a whitespace separated arch string is the sequence of its tokens;    *)
(*    the empty sequence stands for None / ''.                             *)
(*  - a Python dict is a set of [key, value] style records.                *)
(*  - a source string is the record of the parts koji.daemon.SCM reads.    *)
(***************************************************************************)
EXTENDS Integers, Sequences, FiniteSets, TLC

VARIABLES
    src,            \* handler argument src
    target_known,   \* whether session.getBuildTarget finds the target
    tagArches,      \* buildconfig['arches'] of the build tag
    extra,          \* getArchList argument extra
    opts,           \* handler argument opts: scratch, arch_override
    pc,             \* position of BuildContainerTask.handler
    error,          \* exception the handler raised ("none" when none)
    raisedAt,       \* position at which that exception was raised
    archlist,       \* result of getArchList
    subtasks,       \* runBuilds: subtasks dict, set of [arch, task_id]
    waitSet,        \* task ids handed to self.wait
    task,           \* per-arch tasks of the hub: task id -> record
    builds,         \* OSBS builds: build id -> status
    results,        \* runBuilds result, set of [task_id, result]
    results_xmlrpc, \* handler: results_xmlrpc, set of [key, value]
    scratchArg,     \* mappings handed to moveContainerToScratch
    hostCalls,      \* calls made on the hub, in order: [op, by]
    checked,        \* task ids whose _raise_if_image_failed call has begun
    thrown,         \* exception first raised in the handler ("none" when none)
    cli,            \* the submission client: arguments, position, output
    events          \* the hub's event cursor and the handler's use of it

vars == <<src, target_known, tagArches, extra, opts, pc, error, raisedAt,
          thrown, archlist, subtasks, waitSet, task, builds, results,
          results_xmlrpc, scratchArg, hostCalls, checked, cli, events>>

----------------------------------------------------------------------------
(* Bounds *)

MaxTagArches == 2
MaxExtra == 1
MaxOverride == 2
MaxBuildTagArches == 2
MaxBuildOverride == 1
MaxEvent == 2

Range(s) == {s[i] : i \in DOMAIN s}

SeqsUpTo(S, n) == UNION {[1..k -> S] : k \in 0..n}

----------------------------------------------------------------------------
(* Architectures *)

ArchTokens == {"x86_64", "ia32e", "ppc64le", "s390x", "noarch"}

BuildArchTokens == {"x86_64", "ppc64le"}

BuildOverrideTokens == {"x86_64", "s390x", "noarch"}

canonArch(a) ==
    CASE a = "i386" -> "i386"
      [] a = "i686" -> "i386"
      [] a = "athlon" -> "i386"
      [] a = "ia32e" -> "x86_64"
      [] OTHER -> a

tag_archlist(arches) == {canonArch(arches[i]) : i \in DOMAIN arches}

\* lines 170-180: the working arch list
WorkingArchList_anyOverride(arches, extra_, scratch, override) ==
    IF override # <<>> THEN override ELSE arches \o extra_

WorkingArchList(arches, extra_, scratch, override) ==
    IF scratch /\ override # <<>> THEN override ELSE arches \o extra_

\* line 185: the filter
KeepArch_unfiltered(a, allowed) == TRUE

KeepArch(a, allowed) == a = "noarch" \/ canonArch(a) \in allowed

\* variant: an override that matches nothing falls back to the declared arches
getArchList_fallback(arches, extra_, scratch, override) ==
    IF arches = <<>>
    THEN [err |-> "BuildError:NoArches", arches |-> {}]
    ELSE LET allowed == tag_archlist(arches)
             wl == WorkingArchList(arches, extra_, scratch, override)
             archdict == {a \in Range(wl) : KeepArch(a, allowed)}
         IN  IF archdict = {}
             THEN [err |-> "none", arches |-> Range(arches)]
             ELSE [err |-> "none", arches |-> archdict]

getArchList(arches, extra_, scratch, override) ==
    IF arches = <<>>
    THEN [err |-> "BuildError:NoArches", arches |-> {}]
    ELSE LET allowed == tag_archlist(arches)
             wl == WorkingArchList(arches, extra_, scratch, override)
             archdict == {a \in Range(wl) : KeepArch(a, allowed)}
         IN  IF archdict = {}
             THEN [err |-> "BuildError:NoMatchingArches", arches |-> {}]
             ELSE [err |-> "none", arches |-> archdict]

----------------------------------------------------------------------------
(* Sources: what koji.daemon.SCM reads from the src string *)

ScmSchemes == {"git://", "git+https://"}

allowed_scms == {"pkgs.example.com"}

\* a repository path is the sequence of its pieces: "/", a name, ".git"
RepoDirs == {<<>>, <<"/", "rpms">>}

RepoNames == {"foo", "bar"}

Repositories ==
    {d \o <<"/", n>> : d \in RepoDirs, n \in RepoNames}
    \cup {d \o <<"/", n, ".git">> : d \in RepoDirs, n \in RepoNames}

Sources ==
    { [scheme |-> "git://", host |-> "pkgs.example.com",
       repository |-> r, revision |-> "rev"] : r \in Repositories }
    \cup
    { [scheme |-> "git://", host |-> "evil.example.com",
       repository |-> <<"/", "rpms", "/", "foo", ".git">>, revision |-> "rev"],
      [scheme |-> "git://", host |-> "pkgs.example.com",
       repository |-> <<"/", "rpms", "/", "foo", ".git">>, revision |-> ""],
      [scheme |-> "", host |-> "",
       repository |-> <<"/", "tmp", "/", "foo">>, revision |-> ""] }

is_scm_url(s) == s.scheme \in ScmSchemes

\* SCM(src): the constructor rejects a url it cannot parse
scm_parses(s) == is_scm_url(s) /\ s.revision # ""

assert_allowed(s) == s.host \in allowed_scms

\* os.path.basename: what follows the last "/"
basename(path) ==
    LET slashes == {i \in DOMAIN path : path[i] = "/"}
        last == IF slashes = {} THEN 0
                ELSE CHOOSE i \in slashes : \A j \in slashes : j <= i
    IN  SubSeq(path, last + 1, Len(path))

endswith_git(path) == path # <<>> /\ path[Len(path)] = ".git"

\* variant: the bare-repository suffix is kept
component_keepSuffix(repository) == basename(repository)

\* lines 82-86
component(repository) ==
    IF endswith_git(repository)
    THEN basename(SubSeq(repository, 1, Len(repository) - 1))
    ELSE basename(repository)

----------------------------------------------------------------------------
(* Tasks and builds *)

ParentTaskId == 1

SubtaskIds == (ParentTaskId + 1)..(ParentTaskId + Cardinality(ArchTokens))

BuildIds == 1..Cardinality(ArchTokens)

NoTask == [state |-> "none", arch |-> "", build_id |-> 0, err |-> "none",
           logs |-> <<>>, component |-> <<>>, calls |-> <<>>,
           _osbs |-> <<>>, made |-> 0, clients |-> <<>>]

\* a call made by a per-arch task, with the build id it passes or receives
Call(op, b) == [op |-> op, build_id |-> b]

Cancellations == {"SystemExit", "ServerExit", "KeyboardInterrupt"}

Dispatched == {s.task_id : s \in subtasks}

Finished(t) == task[t].state \in {"CLOSED", "FAILED"}

imgdata(t) == [task_id |-> t, logs |-> task[t].logs,
               osbs_build_id |-> task[t].build_id]

\* str(task_id)
str(n) == ToString(n)

\* the attributes BuildContainerTask and its base BaseTaskHandler define
BuildContainerTaskAttrs ==
    {"initContainerBuild", "runBuilds", "getArchList", "getRelease",
     "handler", "_raise_if_image_failed", "wait", "uploadFile", "session",
     "logger", "id", "options", "workdir"}

\* lines 260-263, as the exception the call raises ("none": it returns)
raise_if_image_failed(osbs_build_id) ==
    IF "osbs" \notin BuildContainerTaskAttrs THEN "AttributeError"
    ELSE IF builds[osbs_build_id] = "failed" THEN "ContainerError"
    ELSE "none"

\* variant: the bare except also handles the cancellation signals
ExceptClause_trapAll(e) ==
    IF ~opts.scratch THEN "NotImplementedError"
    ELSE IF e \in Cancellations THEN "GenericError:Cancelled"
    ELSE e

\* variant: the bare except does not test for scratch
ExceptClause_noScratchTest(e) ==
    IF e \in Cancellations THEN e ELSE "NotImplementedError"

\* lines 248-258: what the except clauses re-raise for exception e
ExceptClause(e) ==
    IF e \in Cancellations THEN e
    ELSE IF ~opts.scratch THEN "NotImplementedError"
    ELSE e

Raise(e, at) == pc' = "raised" /\ error' = e /\ raisedAt' = at /\ thrown' = e

\* an exception raised inside the try block of lines 227-258
RaiseInTry(e, at) ==
    /\ pc' = "raised"
    /\ thrown' = e
    /\ error' = ExceptClause(e)
    /\ raisedAt' = at

----------------------------------------------------------------------------
(* Initial states *)

(* The submission client (cli_containerbuild): parse_arguments and            *)
(* handle_build, as the tests of test_cli_containerbuild.py fix them.        *)

\* the value of --arch-override: arch names with "," or " " between them
CliOverrideArgs ==
    {<<>>, <<"x86_64">>, <<"x86_64", ",", "ppc64le">>,
     <<"x86_64", " ", "ppc64le">>}

CliArgs == [scratch : BOOLEAN, arch_override : CliOverrideArgs,
            wait : {"--wait", "--nowait", "unset"}, quiet : BOOLEAN]

NoOpts == [scratch |-> FALSE, arch_override |-> <<>>]

CliState(p, args, bg) ==
    [pc |-> p, args |-> args, running_in_bg |-> bg, opts |-> NoOpts,
     submitted |-> {}, logged_in |-> TRUE, task_success |-> "unknown",
     stdout |-> <<>>, rv |-> "unset", exit |-> "none"]

\* the submission client before it is started
CliIdle ==
    CliState("idle", [scratch |-> FALSE, arch_override |-> <<>>,
                      wait |-> "unset", quiet |-> FALSE], FALSE)

\* arch_override.replace(',', ' ')
replace_commas(a) == [i \in DOMAIN a |-> IF a[i] = "," THEN " " ELSE a[i]]

\* wait when asked to, or when not told and not running in the background
cli_waits(c) ==
    c.args.wait = "--wait" \/ (c.args.wait = "unset" /\ ~c.running_in_bg)

\* the hub is at its first event and the handler has not read it
NoEvents == [last |-> 1, event_id |-> 0, reads |-> 0, lookups |-> <<>>]

\* line 201: self.event_id = self.session.getLastEvent()['id']
getLastEvent(ev) == [ev EXCEPT !.event_id = ev.last, !.reads = @ + 1]

\* a hub lookup made with event=e while the hub's cursor is at ev.last
Lookup(ev, op, e) ==
    [ev EXCEPT !.lookups = Append(@, [op |-> op, event |-> e, at |-> ev.last])]

Idle ==
    /\ error = "none"
    /\ raisedAt = "none"
    /\ thrown = "none"
    /\ archlist = {}
    /\ subtasks = {}
    /\ waitSet = {}
    /\ task = [t \in SubtaskIds |-> NoTask]
    /\ builds = [b \in BuildIds |-> "none"]
    /\ results = {}
    /\ results_xmlrpc = {}
    /\ scratchArg = {}
    /\ hostCalls = <<>>
    /\ checked = {}

Init ==
    /\ cli = CliIdle
    /\ src \in Sources
    /\ target_known \in BOOLEAN
    /\ tagArches \in SeqsUpTo(BuildArchTokens, MaxBuildTagArches)
    /\ extra = <<>>
    /\ opts \in [scratch : BOOLEAN,
                 arch_override : SeqsUpTo(BuildOverrideTokens, MaxBuildOverride)]
    /\ pc = "start"
    /\ events = NoEvents
    /\ Idle

InitArch ==
    /\ cli = CliIdle
    /\ src \in {s \in Sources : scm_parses(s) /\ assert_allowed(s)
                               /\ s.repository = <<"/", "foo">>}
    /\ target_known = TRUE
    /\ tagArches \in SeqsUpTo(ArchTokens, MaxTagArches)
    /\ extra \in SeqsUpTo(ArchTokens, MaxExtra)
    /\ opts \in [scratch : BOOLEAN,
                 arch_override : SeqsUpTo(ArchTokens, MaxOverride)]
    /\ pc = "resolve"
    /\ events = getLastEvent(NoEvents)
    /\ Idle

inputs == <<src, target_known, tagArches, extra, opts>>

----------------------------------------------------------------------------
(* BuildContainerTask.getArchList applied to drawn inputs *)

GetArchListCall ==
    /\ pc = "resolve"
    /\ events' = Lookup(events, "getBuildConfig", events.event_id)
    /\ LET r == getArchList(tagArches, extra, opts.scratch, opts.arch_override)
       IN  IF r.err # "none"
           THEN Raise(r.err, "getArchList") /\ UNCHANGED archlist
           ELSE /\ pc' = "resolved"
                /\ archlist' = r.arches
                /\ UNCHANGED <<error, raisedAt, thrown>>
    /\ UNCHANGED <<inputs, cli, subtasks, waitSet, task, builds, results,
                   results_xmlrpc, scratchArg, hostCalls, checked>>

----------------------------------------------------------------------------
(* BuildContainerTask.handler *)

\* lines 196-201
H_GetLastEvent ==
    /\ pc = "start"
    /\ pc' = "getBuildTarget"
    /\ events' = getLastEvent(events)
    /\ UNCHANGED <<inputs, cli, error, raisedAt, thrown, archlist, subtasks,
                   waitSet, task, builds, results, results_xmlrpc, scratchArg,
                   hostCalls, checked>>

\* lines 202-203: target_info is None for an unknown target, and
\* target_info['build_tag'] then raises TypeError
H_GetBuildTarget ==
    /\ pc = "getBuildTarget"
    /\ events' = Lookup(events, "getBuildTarget", events.event_id)
    /\ IF ~target_known
       THEN Raise("TypeError", "getBuildTarget")
       ELSE pc' = "getArchList" /\ UNCHANGED <<error, raisedAt, thrown>>
    /\ UNCHANGED <<inputs, cli, archlist, subtasks, waitSet, task, builds,
                   results, results_xmlrpc, scratchArg, hostCalls, checked>>

\* the hub moves on to its next event
Hub_EventAdvance ==
    /\ events.last < MaxEvent
    /\ events' = [events EXCEPT !.last = @ + 1]
    /\ UNCHANGED <<inputs, cli, pc, error, raisedAt, thrown, archlist,
                   subtasks, waitSet, task, builds, results, results_xmlrpc,
                   scratchArg, hostCalls, checked>>

\* variant: the tag lookup asks for the hub's current event
H_GetArchList_currentEvent ==
    /\ pc = "getArchList"
    /\ events' = Lookup(events, "getBuildConfig", events.last)
    /\ LET r == getArchList(tagArches, <<>>, opts.scratch, opts.arch_override)
       IN  IF r.err # "none"
           THEN Raise(r.err, "getArchList") /\ UNCHANGED archlist
           ELSE /\ pc' = "gate"
                /\ archlist' = r.arches
                /\ UNCHANGED <<error, raisedAt, thrown>>
    /\ UNCHANGED <<inputs, cli, subtasks, waitSet, task, builds, results,
                   results_xmlrpc, scratchArg, hostCalls, checked>>

\* lines 204-205
H_GetArchList ==
    /\ pc = "getArchList"
    /\ events' = Lookup(events, "getBuildConfig", events.event_id)
    /\ LET r == getArchList(tagArches, <<>>, opts.scratch, opts.arch_override)
       IN  IF r.err # "none"
           THEN Raise(r.err, "getArchList") /\ UNCHANGED archlist
           ELSE /\ pc' = "gate"
                /\ archlist' = r.arches
                /\ UNCHANGED <<error, raisedAt, thrown>>
    /\ UNCHANGED <<inputs, cli, subtasks, waitSet, task, builds, results,
                   results_xmlrpc, scratchArg, hostCalls, checked>>

\* variant: no capability gate
H_ScratchGate_open ==
    /\ pc = "gate"
    /\ pc' = "validate"
    /\ UNCHANGED <<inputs, cli, events, error, raisedAt, thrown, archlist,
                   subtasks, waitSet, task, builds, results, results_xmlrpc,
                   scratchArg, hostCalls, checked>>

\* lines 207-209
H_ScratchGate ==
    /\ pc = "gate"
    /\ IF ~opts.scratch
       THEN Raise("NotImplementedError", "gate")
       ELSE pc' = "validate" /\ UNCHANGED <<error, raisedAt, thrown>>
    /\ UNCHANGED <<inputs, cli, events, archlist, subtasks, waitSet, task,
                   builds, results, results_xmlrpc, scratchArg, hostCalls,
                   checked>>

\* variant: the source is not validated before dispatch
H_ValidateSource_skip ==
    /\ pc = "validate"
    /\ pc' = "dispatch"
    /\ UNCHANGED <<inputs, cli, events, error, raisedAt, thrown, archlist,
                   subtasks, waitSet, task, builds, results, results_xmlrpc,
                   scratchArg, hostCalls, checked>>

\* variant: the orchestrator also checks the allow-list
H_ValidateSource_allowlist ==
    /\ pc = "validate"
    /\ IF ~is_scm_url(src)
       THEN RaiseInTry("BuildError:InvalidSource", "validate")
       ELSE IF ~assert_allowed(src)
       THEN RaiseInTry("BuildError:ScmNotAllowed", "validate")
       ELSE pc' = "dispatch" /\ UNCHANGED <<error, raisedAt, thrown>>
    /\ UNCHANGED <<inputs, cli, events, archlist, subtasks, waitSet, task,
                   builds, results, results_xmlrpc, scratchArg, hostCalls,
                   checked>>

\* lines 227-231
H_ValidateSource ==
    /\ pc = "validate"
    /\ IF ~is_scm_url(src)
       THEN RaiseInTry("BuildError:InvalidSource", "validate")
       ELSE pc' = "dispatch" /\ UNCHANGED <<error, raisedAt, thrown>>
    /\ UNCHANGED <<inputs, cli, events, archlist, subtasks, waitSet, task,
                   builds, results, results_xmlrpc, scratchArg, hostCalls,
                   checked>>

\* lines 145-152: one iteration of the loop over arches
H_Subtask ==
    /\ pc = "dispatch"
    /\ \E arch \in archlist \ {s.arch : s \in subtasks} :
          LET t == ParentTaskId + Cardinality(subtasks) + 1
          IN  /\ subtasks' = subtasks \cup {[arch |-> arch, task_id |-> t]}
              /\ task' = [task EXCEPT ![t] = [NoTask EXCEPT !.state = "OPEN",
                                                            !.arch = arch]]
              /\ hostCalls' = Append(hostCalls,
                                     [op |-> "subtask", by |-> ParentTaskId])
    /\ UNCHANGED <<inputs, cli, events, pc, error, raisedAt, thrown, archlist,
                   waitSet, builds, results, results_xmlrpc, scratchArg,
                   checked>>

\* variant: the join begins before the loop over arches has ended
H_Wait_early ==
    /\ pc = "dispatch"
    /\ pc' = "join"
    /\ waitSet' = Dispatched
    /\ hostCalls' = Append(hostCalls, [op |-> "wait", by |-> ParentTaskId])
    /\ UNCHANGED <<inputs, cli, events, error, raisedAt, thrown, archlist,
                   subtasks, task, builds, results, results_xmlrpc, scratchArg,
                   checked>>

\* line 155: the call of self.wait(subtasks.values(), all=True, failany=True)
H_Wait ==
    /\ pc = "dispatch"
    /\ {s.arch : s \in subtasks} = archlist
    /\ pc' = "join"
    /\ waitSet' = Dispatched
    /\ hostCalls' = Append(hostCalls, [op |-> "wait", by |-> ParentTaskId])
    /\ UNCHANGED <<inputs, cli, events, error, raisedAt, thrown, archlist,
                   subtasks, task, builds, results, results_xmlrpc, scratchArg,
                   checked>>

\* variant: the failed join cancels the subtasks that are still running
H_WaitRaises_cancelSiblings ==
    /\ pc = "join"
    /\ \E t \in waitSet :
          /\ task[t].state = "FAILED"
          /\ RaiseInTry(task[t].err, "join")
    /\ task' = [t \in SubtaskIds |->
                  IF t \in waitSet /\ ~Finished(t)
                  THEN [task[t] EXCEPT !.state = "CANCELED"]
                  ELSE task[t]]
    /\ UNCHANGED <<inputs, cli, events, archlist, subtasks, waitSet, builds,
                   results, results_xmlrpc, scratchArg, hostCalls, checked>>

\* line 155, failany=True: a finished subtask that failed makes wait raise
H_WaitRaises ==
    /\ pc = "join"
    /\ \E t \in waitSet :
          /\ task[t].state = "FAILED"
          /\ RaiseInTry(task[t].err, "join")
    /\ UNCHANGED <<inputs, cli, events, archlist, subtasks, waitSet, task,
                   builds, results, results_xmlrpc, scratchArg, hostCalls,
                   checked>>

\* variant: failany=False, a failed subtask does not stop the join
H_WaitReturns_noFailany ==
    /\ pc = "join"
    /\ \A t \in waitSet : Finished(t)
    /\ results' = {[task_id |-> t, result |-> imgdata(t)] : t \in waitSet}
    /\ pc' = "rekey"
    /\ UNCHANGED <<inputs, cli, events, error, raisedAt, thrown, archlist,
                   subtasks, waitSet, task, builds, results_xmlrpc, scratchArg,
                   hostCalls, checked>>

\* variant: all=False, the join returns as soon as one subtask has closed
H_WaitReturns_notAll ==
    /\ pc = "join"
    /\ \E t \in waitSet : task[t].state = "CLOSED"
    /\ results' = {[task_id |-> t, result |-> imgdata(t)] :
                     t \in {u \in waitSet : task[u].state = "CLOSED"}}
    /\ pc' = "rekey"
    /\ UNCHANGED <<inputs, cli, events, error, raisedAt, thrown, archlist,
                   subtasks, waitSet, task, builds, results_xmlrpc, scratchArg,
                   hostCalls, checked>>

\* lines 155-158, all=True: wait returns {task_id: result} once all finished
H_WaitReturns ==
    /\ pc = "join"
    /\ \A t \in waitSet : task[t].state = "CLOSED"
    /\ results' = {[task_id |-> t, result |-> imgdata(t)] : t \in waitSet}
    /\ pc' = "rekey"
    /\ UNCHANGED <<inputs, cli, events, error, raisedAt, thrown, archlist,
                   subtasks, waitSet, task, builds, results_xmlrpc, scratchArg,
                   hostCalls, checked>>

\* variant: the status check runs before finalization
H_Rekey_checkFirst ==
    /\ pc = "rekey"
    /\ results_xmlrpc' = {[key |-> str(r.task_id), value |-> r.result] :
                            r \in results}
    /\ pc' = "postcheck"
    /\ UNCHANGED <<inputs, cli, events, error, raisedAt, thrown, archlist,
                   subtasks, waitSet, task, builds, results, scratchArg,
                   hostCalls, checked>>

\* lines 233-236
H_Rekey ==
    /\ pc = "rekey"
    /\ results_xmlrpc' = {[key |-> str(r.task_id), value |-> r.result] :
                            r \in results}
    /\ pc' = "finalize"
    /\ UNCHANGED <<inputs, cli, events, error, raisedAt, thrown, archlist,
                   subtasks, waitSet, task, builds, results, scratchArg,
                   hostCalls, checked>>

\* lines 237-240
H_MoveContainerToScratch ==
    /\ pc = "finalize"
    /\ opts.scratch
    /\ scratchArg' = scratchArg \cup {results_xmlrpc}
    /\ hostCalls' = Append(hostCalls, [op |-> "moveContainerToScratch",
                                       by |-> ParentTaskId])
    /\ pc' = "postcheck"
    /\ UNCHANGED <<inputs, cli, events, error, raisedAt, thrown, archlist,
                   subtasks, waitSet, task, builds, results, results_xmlrpc,
                   checked>>

\* lines 246-247: one iteration of the loop over results.values(), or its end
H_PostCheck ==
    /\ pc = "postcheck"
    /\ LET todo == {r \in results : r.task_id \notin checked}
       IN  IF todo = {}
           THEN pc' = "returned" /\ UNCHANGED <<error, raisedAt, thrown, checked>>
           ELSE \E r \in todo :
                  /\ checked' = checked \cup {r.task_id}
                  /\ LET e == raise_if_image_failed(r.result.osbs_build_id)
                     IN  IF e # "none"
                         THEN RaiseInTry(e, "postcheck")
                         ELSE UNCHANGED <<pc, error, raisedAt, thrown>>
    /\ UNCHANGED <<inputs, cli, events, archlist, subtasks, waitSet, task,
                   builds, results, results_xmlrpc, scratchArg, hostCalls>>

\* lines 227-250: a cancellation signal delivered while the handler is in
\* its try block
H_Signal ==
    /\ pc \in {"validate", "dispatch", "join", "rekey", "finalize",
               "postcheck"}
    /\ \E c \in Cancellations : RaiseInTry(c, pc)
    /\ UNCHANGED <<inputs, cli, events, archlist, subtasks, waitSet, task,
                   builds, results, results_xmlrpc, scratchArg, hostCalls,
                   checked>>

----------------------------------------------------------------------------
(* CreateContainerTask.handler, run by the hub for each dispatched subtask *)

\* lines 69-75
CT_Scm(t) ==
    /\ task[t].state = "OPEN"
    /\ task' = [task EXCEPT ![t] =
          IF ~scm_parses(src)
          THEN [@ EXCEPT !.state = "FAILED", !.err = "GenericError:InvalidScm"]
          ELSE IF ~assert_allowed(src)
          THEN [@ EXCEPT !.state = "FAILED", !.err = "BuildError:ScmNotAllowed"]
          ELSE [@ EXCEPT !.state = "create"]]
    /\ UNCHANGED <<inputs, cli, events, pc, error, raisedAt, thrown, archlist,
                   subtasks, waitSet, builds, results, results_xmlrpc,
                   scratchArg, hostCalls, checked>>

\* line 64: OSBS(os_conf, build_conf) is a new object, named by the task
\* instance that constructed it and by how many that instance made before
OSBS(t) == <<t, task[t].made + 1>>

\* variant: every call constructs a client
osbs_uncached(t) ==
    [task[t] EXCEPT !._osbs = OSBS(t),
                    !.made = @ + 1,
                    !.clients = Append(@, OSBS(t))]

\* lines 59-66: the task with its client after one self.osbs() call; clients
\* lists what each call returned
osbs(t) ==
    IF task[t]._osbs = <<>>
    THEN [task[t] EXCEPT !._osbs = OSBS(t),
                         !.made = @ + 1,
                         !.clients = Append(@, OSBS(t))]
    ELSE [task[t] EXCEPT !.clients = Append(@, task[t]._osbs)]

\* variant: a create_build that raised is tried once more
CT_CreateBuild_retry(t) ==
    /\ task[t].state = "create"
    /\ \/ LET b == Cardinality({x \in BuildIds : builds[x] # "none"}) + 1
          IN  /\ builds' = [builds EXCEPT ![b] = "running"]
              /\ task' = [task EXCEPT ![t] = [osbs(t) EXCEPT
                    !.state = "wait",
                    !.build_id = b,
                    !.component = component(src.repository),
                    !.calls = <<Call("create_build", b)>>]]
       \/ /\ task' = [task EXCEPT ![t] = [osbs(t) EXCEPT
                !.state = IF task[t].calls = <<>> THEN "create"
                             ELSE "FAILED",
                !.err = IF task[t].calls = <<>> THEN "none"
                           ELSE "OsbsException",
                !.component = component(src.repository),
                !.calls = Append(@, Call("create_build", 0))]]
          /\ UNCHANGED builds
    /\ UNCHANGED <<inputs, cli, events, pc, error, raisedAt, thrown, archlist,
                   subtasks, waitSet, results, results_xmlrpc, scratchArg,
                   hostCalls, checked>>

\* variant: logs are fetched without waiting for the build to finish
CT_CreateBuild_noWait(t) ==
    /\ task[t].state = "create"
    /\ LET b == Cardinality({x \in BuildIds : builds[x] # "none"}) + 1
       IN  /\ builds' = [builds EXCEPT ![b] = "running"]
           /\ task' = [task EXCEPT ![t] = [osbs(t) EXCEPT
                 !.state = "logs",
                 !.build_id = b,
                 !.component = component(src.repository),
                 !.calls = Append(@, Call("create_build", b))]]
    /\ UNCHANGED <<inputs, cli, events, pc, error, raisedAt, thrown, archlist,
                   subtasks, waitSet, results, results_xmlrpc, scratchArg,
                   hostCalls, checked>>

\* lines 77-97: create_build returns a build, or raises
CT_CreateBuild(t) ==
    /\ task[t].state = "create"
    /\ \/ LET b == Cardinality({x \in BuildIds : builds[x] # "none"}) + 1
          IN  /\ builds' = [builds EXCEPT ![b] = "running"]
              /\ task' = [task EXCEPT ![t] = [osbs(t) EXCEPT
                    !.state = "wait",
                    !.build_id = b,
                    !.component = component(src.repository),
                    !.calls = Append(@, Call("create_build", b))]]
       \/ /\ task' = [task EXCEPT ![t] = [osbs(t) EXCEPT
                !.state = "FAILED",
                !.err = "OsbsException",
                !.component = component(src.repository),
                !.calls = Append(@, Call("create_build", 0))]]
          /\ UNCHANGED builds
    /\ UNCHANGED <<inputs, cli, events, pc, error, raisedAt, thrown, archlist,
                   subtasks, waitSet, results, results_xmlrpc, scratchArg,
                   hostCalls, checked>>

\* variant: a failed remote build makes the task raise
CT_WaitForBuild_raiseOnFailed(t) ==
    /\ task[t].state = "wait"
    /\ \E st \in {"succeeded", "failed"} :
          /\ builds' = [builds EXCEPT ![task[t].build_id] = st]
          /\ task' = [task EXCEPT ![t] = [osbs(t) EXCEPT
                !.state = IF st = "failed" THEN "FAILED" ELSE "logs",
                !.err = IF st = "failed" THEN "ContainerError" ELSE @,
                !.calls = Append(@, Call("wait_for_build_to_finish",
                                            task[t].build_id))]]
    /\ UNCHANGED <<inputs, cli, events, pc, error, raisedAt, thrown, archlist,
                   subtasks, waitSet, results, results_xmlrpc, scratchArg,
                   hostCalls, checked>>

\* lines 99-103: returns when the build reached a terminal state
CT_WaitForBuild(t) ==
    /\ task[t].state = "wait"
    /\ \E st \in {"succeeded", "failed"} :
          builds' = [builds EXCEPT ![task[t].build_id] = st]
    /\ task' = [task EXCEPT ![t] = [osbs(t) EXCEPT
          !.state = "logs",
          !.calls = Append(@, Call("wait_for_build_to_finish",
                                      task[t].build_id))]]
    /\ UNCHANGED <<inputs, cli, events, pc, error, raisedAt, thrown, archlist,
                   subtasks, waitSet, results, results_xmlrpc, scratchArg,
                   hostCalls, checked>>

\* lines 104, 48-57
CT_DownloadLogs(t) ==
    /\ task[t].state = "logs"
    /\ task' = [task EXCEPT ![t] = [osbs(t) EXCEPT
          !.state = "upload",
          !.logs = <<"build.log">>,
          !.calls = Append(@, Call("get_build_logs", task[t].build_id))]]
    /\ UNCHANGED <<inputs, cli, events, pc, error, raisedAt, thrown, archlist,
                   subtasks, waitSet, builds, results, results_xmlrpc,
                   scratchArg, hostCalls, checked>>

\* lines 106-116
CT_UploadAndReturn(t) ==
    /\ task[t].state = "upload"
    /\ hostCalls' = Append(hostCalls, [op |-> "uploadFile", by |-> t])
    /\ task' = [task EXCEPT
          ![t].state = "CLOSED",
          ![t].calls = Append(@, Call("uploadFile", 0))]
    /\ UNCHANGED <<inputs, cli, events, pc, error, raisedAt, thrown, archlist,
                   subtasks, waitSet, builds, results, results_xmlrpc,
                   scratchArg, checked>>

----------------------------------------------------------------------------
(* The submission client *)

handlerVars == <<inputs, pc, error, raisedAt, thrown, archlist, subtasks,
                 waitSet, task, builds, results, results_xmlrpc, scratchArg,
                 hostCalls, checked, events>>

\* variant: --arch-override is accepted without --scratch
Cli_ParseArguments_anyOverride ==
    /\ cli.pc = "start"
    /\ cli' = [cli EXCEPT
          !.pc = "parsed",
          !.opts = [scratch |-> cli.args.scratch,
                    arch_override |-> replace_commas(cli.args.arch_override)]]
    /\ UNCHANGED handlerVars

\* parse_arguments
Cli_ParseArguments ==
    /\ cli.pc = "start"
    /\ IF cli.args.arch_override # <<>> /\ ~cli.args.scratch
       THEN cli' = [cli EXCEPT !.pc = "exited", !.exit = "SystemExit"]
       ELSE cli' = [cli EXCEPT
               !.pc = "parsed",
               !.opts = [scratch |-> cli.args.scratch,
                         arch_override |->
                             replace_commas(cli.args.arch_override)]]
    /\ UNCHANGED handlerVars

\* handle_build: session.buildContainer(source, target, opts, ...)
Cli_BuildContainer ==
    /\ cli.pc = "parsed"
    /\ cli' = [cli EXCEPT
          !.pc = "created",
          !.submitted = @ \cup {cli.opts},
          !.stdout = IF cli.args.quiet THEN @
                     ELSE @ \o <<"Created task", "Task info">>]
    /\ UNCHANGED handlerVars

\* variant: the session is logged out also when the client does not wait
Cli_NoWait_logout ==
    /\ cli.pc = "created"
    /\ ~cli_waits(cli)
    /\ cli' = [cli EXCEPT !.pc = "done", !.rv = "None", !.logged_in = FALSE]
    /\ UNCHANGED handlerVars

\* handle_build: no wait, return
Cli_NoWait ==
    /\ cli.pc = "created"
    /\ ~cli_waits(cli)
    /\ cli' = [cli EXCEPT !.pc = "done", !.rv = "None"]
    /\ UNCHANGED handlerVars

\* handle_build: session.logout() before watching the task
Cli_Logout ==
    /\ cli.pc = "created"
    /\ cli_waits(cli)
    /\ cli' = [cli EXCEPT !.pc = "watching", !.logged_in = FALSE]
    /\ UNCHANGED handlerVars

\* handle_build: watch_tasks, then print the task result if it succeeded
Cli_WatchTasks ==
    /\ cli.pc = "watching"
    /\ \E ok \in BOOLEAN :
          cli' = [cli EXCEPT
             !.pc = "done",
             !.task_success = IF ok THEN "yes" ELSE "no",
             !.rv = IF ok THEN "0" ELSE "1",
             !.stdout = IF ok THEN Append(@, "Task Result") ELSE @]
    /\ UNCHANGED handlerVars

InitCli ==
    /\ \E a \in CliArgs, bg \in BOOLEAN : cli = CliState("start", a, bg)
    /\ src \in {s \in Sources : scm_parses(s) /\ assert_allowed(s)
                               /\ s.repository = <<"/", "foo">>}
    /\ target_known = TRUE
    /\ tagArches = <<"x86_64">>
    /\ extra = <<>>
    /\ opts = NoOpts
    /\ pc = "idle"
    /\ events = NoEvents
    /\ Idle

NextCli ==
    \/ Cli_ParseArguments
    \/ Cli_BuildContainer
    \/ Cli_NoWait
    \/ Cli_Logout
    \/ Cli_WatchTasks

SpecCli == InitCli /\ [][NextCli]_vars

----------------------------------------------------------------------------
(* Specifications *)

Next ==
    \/ H_GetLastEvent
    \/ H_GetBuildTarget
    \/ H_GetArchList
    \/ H_ScratchGate
    \/ H_ValidateSource
    \/ H_Subtask
    \/ H_Wait
    \/ H_WaitRaises
    \/ H_WaitReturns
    \/ H_Rekey
    \/ H_MoveContainerToScratch
    \/ H_PostCheck
    \/ H_Signal
    \/ \E t \in SubtaskIds : CT_Scm(t)
    \/ \E t \in SubtaskIds : CT_CreateBuild(t)
    \/ \E t \in SubtaskIds : CT_WaitForBuild(t)
    \/ \E t \in SubtaskIds : CT_DownloadLogs(t)
    \/ \E t \in SubtaskIds : CT_UploadAndReturn(t)

Spec == Init /\ [][Next]_vars

\* the handler and its subtasks on one source while the hub's event cursor
\* moves
InitEvent ==
    /\ cli = CliIdle
    /\ src \in {s \in Sources : scm_parses(s) /\ assert_allowed(s)
                               /\ s.repository = <<"/", "foo">>}
    /\ target_known \in BOOLEAN
    /\ tagArches \in {<<>>, <<"x86_64">>, <<"x86_64", "ppc64le">>}
    /\ extra = <<>>
    /\ opts \in [scratch : BOOLEAN, arch_override : {<<>>}]
    /\ pc = "start"
    /\ events = NoEvents
    /\ Idle

NextEvent == Next \/ Hub_EventAdvance

SpecEvent == InitEvent /\ [][NextEvent]_vars

NextArch == GetArchListCall

SpecArch == InitArch /\ [][NextArch]_vars

----------------------------------------------------------------------------
(* Properties *)

CallOps == {hostCalls[i].op : i \in DOMAIN hostCalls}

Terminated == pc \in {"raised", "returned"}

AnyFailed == \E t \in Dispatched : task[t].state = "FAILED"

BuildRecordOps == {"initContainerBuild", "completeContainerBuild", "failBuild"}

ArchResolution == getArchList(tagArches, extra, opts.scratch, opts.arch_override)

CanonDeclared(a) ==
    \E i \in DOMAIN tagArches : canonArch(a) = canonArch(tagArches[i])

\* C1 as stated: every handler call whose options do not set scratch ends
\* with the unsupported-build-mode error, without subtask dispatch and without
\* initContainerBuild, completeContainerBuild, failBuild or
\* moveContainerToScratch.
C1_EveryNonScratchUnsupported ==
    (~opts.scratch /\ Terminated) =>
        /\ pc = "raised" /\ error = "NotImplementedError"
        /\ subtasks = {}
        /\ CallOps \cap (BuildRecordOps \cup
                         {"subtask", "moveContainerToScratch"}) = {}

\* C1 amended: a non-scratch call never dispatches a subtask nor calls
\* initContainerBuild, completeContainerBuild, failBuild or
\* moveContainerToScratch, never returns normally, and when its target is
\* known and its arches resolve it fails with the unsupported-build-mode error.
C1_NonScratchGate ==
    ~opts.scratch =>
        /\ subtasks = {}
        /\ CallOps \cap (BuildRecordOps \cup
                         {"subtask", "moveContainerToScratch"}) = {}
        /\ pc \notin {"validate", "dispatch", "join", "rekey", "finalize",
                      "postcheck", "returned"}
        /\ (pc = "raised" /\ target_known /\ ArchResolution.err = "none")
              => (error = "NotImplementedError" /\ raisedAt = "gate")

C1_Witness ==
    /\ ~opts.scratch
    /\ pc = "raised"
    /\ error = "NotImplementedError"
    /\ archlist # {}

\* C2: in a scratch run with dispatched subtasks, once a subtask has failed
\* the handler cannot get past the join: no results are aggregated or
\* re-keyed, moveContainerToScratch is not called, and the handler ends by
\* raising from the join.
C2_FailFastJoin ==
    (opts.scratch /\ AnyFailed) =>
        /\ results = {}
        /\ results_xmlrpc = {}
        /\ scratchArg = {}
        /\ "moveContainerToScratch" \notin CallOps
        /\ pc \in {"dispatch", "join", "raised"}
        /\ (pc = "raised" /\ thrown \notin Cancellations) => raisedAt = "join"

C2_Witness ==
    /\ opts.scratch
    /\ pc = "raised"
    /\ raisedAt = "join"
    /\ thrown \notin Cancellations
    /\ Cardinality(Dispatched) >= 2
    /\ \E t \in Dispatched : task[t].state = "FAILED"
    /\ \E t \in Dispatched : task[t].state = "CLOSED"

\* C3: the external-build status check starts only after
\* moveContainerToScratch was called, so a run that raises from the post-join
\* check has already finalized the build.
C3_FinalizeBeforeStatusCheck ==
    (pc = "postcheck" \/ checked # {} \/ raisedAt = "postcheck") =>
        /\ "moveContainerToScratch" \in CallOps
        /\ scratchArg # {}

C3_Witness ==
    /\ pc = "raised"
    /\ raisedAt = "postcheck"
    /\ thrown \notin Cancellations
    /\ "moveContainerToScratch" \in CallOps

\* C4: a scratch run that is not cancelled, in which every subtask completed
\* and some external build has failed status, ends by raising ContainerError, after all logs
\* were uploaded and moveContainerToScratch was called.
C4_RaisesContainerError ==
    ( /\ opts.scratch
      /\ Terminated
      /\ thrown \notin Cancellations
      /\ waitSet # {}
      /\ \A t \in waitSet : task[t].state = "CLOSED"
      /\ \E t \in waitSet : builds[task[t].build_id] = "failed" )
    => /\ pc = "raised"
       /\ error = "ContainerError"
       /\ "moveContainerToScratch" \in CallOps
       /\ \A t \in waitSet :
             \E i \in DOMAIN hostCalls :
                hostCalls[i] = [op |-> "uploadFile", by |-> t]

\* C5: when the target is unknown, the tag has no arches, no arch matches or
\* the source is not a source-control URL, no subtask is ever dispatched and
\* moveContainerToScratch is never called; the handler ends by raising.
C5_NoPartialStateOnValidationFailure ==
    (~target_known \/ ArchResolution.err # "none" \/ ~is_scm_url(src)) =>
        /\ subtasks = {}
        /\ \A t \in SubtaskIds : task[t] = NoTask
        /\ CallOps \cap {"subtask", "wait", "moveContainerToScratch"} = {}
        /\ scratchArg = {}
        /\ pc # "returned"

C5_Witness ==
    /\ opts.scratch
    /\ pc = "raised"
    /\ error = "BuildError:InvalidSource"
    /\ archlist # {}
    /\ subtasks = {}

ScmNotAllowedSeen ==
    \/ error = "BuildError:ScmNotAllowed"
    \/ \E t \in SubtaskIds : task[t].err = "BuildError:ScmNotAllowed"

\* C6 as stated: the SCM-not-allowed rejection happens before any per-arch
\* subtask is dispatched.
C6_AllowListBeforeDispatch == ScmNotAllowedSeen => subtasks = {}

\* C6 amended: the orchestrator's source validation rejects only a source
\* that is not a source-control URL; the SCM-not-allowed error is raised
\* inside dispatched per-arch subtasks and reaches the orchestrator through
\* the failed join.
C6_AllowListInSubtask ==
    /\ (raisedAt = "validate" /\ thrown \notin Cancellations) =>
          (error = "BuildError:InvalidSource" /\ ~is_scm_url(src))
    /\ (pc = "raised" /\ error = "BuildError:ScmNotAllowed") =>
          /\ raisedAt = "join"
          /\ \E t \in Dispatched : task[t].err = "BuildError:ScmNotAllowed"
    /\ (is_scm_url(src) /\ ~assert_allowed(src)) =>
          \A t \in Dispatched :
             task[t].state \in {"OPEN", "FAILED"} /\ task[t].build_id = 0

C6_Witness ==
    /\ pc = "raised"
    /\ raisedAt = "join"
    /\ error = "BuildError:ScmNotAllowed"
    /\ subtasks # {}

\* C7: a returned arch list is non-empty and each element is noarch or
\* canonical-equal to an arch the tag declares.
C7_ArchListSound ==
    pc = "resolved" =>
        /\ archlist # {}
        /\ \A a \in archlist : a = "noarch" \/ CanonDeclared(a)

C7_Witness ==
    /\ pc = "resolved"
    /\ extra # <<>>
    /\ \E a \in archlist : a # "noarch" /\ a \notin Range(tagArches)
    /\ \E a \in Range(tagArches \o extra) : a \notin archlist

\* C8: with a non-empty override, a scratch build resolves to the kept
\* override tokens alone, and a non-scratch build resolves exactly as it
\* would without the override, from the declared arches plus extras.
C8_OverrideIffScratch ==
    ( /\ pc \in {"resolved", "raised"}
      /\ tagArches # <<>>
      /\ opts.arch_override # <<>> ) =>
        IF opts.scratch
        THEN /\ archlist \subseteq Range(opts.arch_override)
             /\ \A a \in Range(opts.arch_override) :
                   (a = "noarch" \/ CanonDeclared(a)) => a \in archlist
        ELSE /\ archlist \subseteq Range(tagArches \o extra)
             /\ \A a \in Range(tagArches \o extra) :
                   (a = "noarch" \/ CanonDeclared(a)) => a \in archlist
             /\ (tagArches = <<"x86_64", "ppc64le">> /\ extra = <<>>
                 /\ opts.arch_override = <<"s390x">>)
                   => archlist = {"x86_64", "ppc64le"}

C8_Witness ==
    /\ pc = "resolved"
    /\ ~opts.scratch
    /\ tagArches = <<"x86_64", "ppc64le">>
    /\ extra = <<>>
    /\ opts.arch_override = <<"s390x">>
    /\ archlist = {"x86_64", "ppc64le"}

\* C9: a scratch build whose override tokens are all neither noarch nor
\* canonical-equal to a declared arch fails with the no-matching-arches
\* error, and a tag that declares no arches fails with the no-arches error.
C9_OverrideStillFiltered ==
    pc \in {"resolved", "raised"} =>
        /\ tagArches = <<>> =>
              (pc = "raised" /\ error = "BuildError:NoArches")
        /\ ( /\ tagArches # <<>>
             /\ opts.scratch
             /\ opts.arch_override # <<>>
             /\ \A a \in Range(opts.arch_override) :
                   a # "noarch" /\ ~CanonDeclared(a) )
           => (pc = "raised" /\ error = "BuildError:NoMatchingArches"
               /\ archlist = {})

C9_Witness ==
    /\ pc = "raised"
    /\ error = "BuildError:NoMatchingArches"
    /\ opts.scratch
    /\ tagArches = <<"x86_64", "ppc64le">>
    /\ opts.arch_override = <<"s390x">>

\* C10: the mapping handed to moveContainerToScratch has one entry per
\* resolved architecture, keyed by the architecture string and holding that
\* architecture's subtask result.
C10_KeyedByArch ==
    \A m \in scratchArg :
        /\ {e.key : e \in m} = archlist
        /\ \A e \in m :
              \E s \in subtasks : s.arch = e.key /\ e.value.task_id = s.task_id

\* C11: a cancellation signal (SystemExit, ServerExit, KeyboardInterrupt)
\* raised during source validation, dispatch, join, finalization or post-join
\* verification leaves the handler as that same signal, and no failure
\* cleanup (failBuild) is called.
C11_CancellationPropagates ==
    thrown \in Cancellations =>
        /\ pc = "raised"
        /\ error = thrown
        /\ "failBuild" \notin CallOps

C11_Witness ==
    /\ thrown = "ServerExit"
    /\ error = "ServerExit"
    /\ raisedAt = "join"
    /\ \E t \in Dispatched : task[t].state = "wait"

\* C12: once its external build is in a terminal state, succeeded or failed,
\* a per-arch task does not fail: it goes on to fetch and upload the logs and
\* closes with the result {task_id, logs, osbs_build_id}.
C12_NoRaiseOnRemoteFailure ==
    \A t \in Dispatched :
        (task[t].build_id # 0
         /\ builds[task[t].build_id] \in {"succeeded", "failed"}) =>
            /\ task[t].state \in {"logs", "upload", "CLOSED"}
            /\ task[t].err = "none"
            /\ task[t].state = "CLOSED" =>
                  /\ task[t].logs = <<"build.log">>
                  /\ \E i \in DOMAIN hostCalls :
                        hostCalls[i] = [op |-> "uploadFile", by |-> t]
                  /\ imgdata(t) = [task_id |-> t, logs |-> <<"build.log">>,
                                   osbs_build_id |-> task[t].build_id]

C12_Witness ==
    \E t \in Dispatched :
        /\ task[t].state = "CLOSED"
        /\ builds[task[t].build_id] = "failed"
        /\ task[t].logs = <<"build.log">>

\* C13: with an unknown build target the handler ends with the dedicated
\* unknown-target error, before architecture resolution and subtask dispatch.
C13_UnknownTargetError ==
    (~target_known /\ Terminated) =>
        /\ pc = "raised"
        /\ error = "GenericError:UnknownTarget"
        /\ archlist = {}
        /\ subtasks = {}

\* C14: in a scratch run an exception other than a cancellation signal that
\* is raised in the try block leaves the handler unchanged, and no scratch
\* run calls initContainerBuild, completeContainerBuild or failBuild.
C14_ScratchReraisesSame ==
    opts.scratch =>
        /\ CallOps \cap BuildRecordOps = {}
        /\ (pc = "raised" /\ thrown \notin Cancellations) => error = thrown
        /\ pc = "raised" <=> thrown # "none"

C14_Witness ==
    /\ opts.scratch
    /\ pc = "raised"
    /\ raisedAt = "join"
    /\ thrown = "OsbsException"
    /\ error = "OsbsException"

\* C15: the component passed to create_build is <name> both for a repository
\* path ending in /<name>.git and for one ending in /<name>.
C15_ComponentName ==
    \A t \in Dispatched :
        \A d \in RepoDirs, n \in RepoNames :
            ( /\ task[t].calls # <<>>
              /\ \/ src.repository = d \o <<"/", n, ".git">>
                 \/ src.repository = d \o <<"/", n>> )
            => task[t].component = <<n>>

C15_Witness ==
    \E t \in Dispatched :
        /\ task[t].calls # <<>>
        /\ src.repository = <<"/", "rpms", "/", "foo", ".git">>
        /\ task[t].component = <<"foo">>

ExpectedCalls(b) ==
    << Call("create_build", b), Call("wait_for_build_to_finish", b),
       Call("get_build_logs", b), Call("uploadFile", 0) >>

IsPrefix(p, q) == Len(p) <= Len(q) /\ SubSeq(q, 1, Len(p)) = p

\* C18: the calls of a per-arch task are, in order, create_build,
\* wait_for_build_to_finish, get_build_logs, uploadFile, all on the build id
\* its create_build returned; logs are fetched only after the wait returned,
\* and a closed task's result carries that same build id.
C18_PerArchCallOrder ==
    \A t \in Dispatched :
        /\ IsPrefix(task[t].calls, ExpectedCalls(task[t].build_id))
        /\ Len(task[t].calls) >= 3 =>
              builds[task[t].build_id] \in {"succeeded", "failed"}
        /\ task[t].state = "CLOSED" =>
              /\ task[t].calls = ExpectedCalls(task[t].build_id)
              /\ task[t].build_id \in BuildIds
              /\ imgdata(t).osbs_build_id = task[t].calls[1].build_id

C18_Witness ==
    \E t \in Dispatched :
        /\ task[t].state = "CLOSED"
        /\ task[t].calls = ExpectedCalls(task[t].build_id)
        /\ task[t].build_id = 2

JoinReturned == results # {}

Uploads == {i \in DOMAIN hostCalls : hostCalls[i].op = "uploadFile"}

\* C19 as stated: no uploadFile call and no re-keying happens before the
\* wait for all subtasks has returned.
C19_UploadAndRekeyAfterJoin ==
    ("uploadFile" \in CallOps \/ results_xmlrpc # {}) => JoinReturned

\* C19 amended: re-keying happens only after the join has returned; the
\* build-log uploads are made by the per-arch tasks before they close, so
\* when the join returns every subtask has made its one upload and none
\* follows.
C19_RekeyAfterJoinUploadsBefore ==
    /\ results_xmlrpc # {} => JoinReturned
    /\ JoinReturned =>
          /\ \A t \in waitSet :
                \E i \in Uploads : hostCalls[i].by = t
          /\ Cardinality(Uploads) = Cardinality(waitSet)

C19_Witness ==
    /\ pc = "join"
    /\ ~JoinReturned
    /\ "uploadFile" \in CallOps
    /\ \E t \in waitSet : task[t].state = "wait"

SubtaskCalls == {i \in DOMAIN hostCalls : hostCalls[i].op = "subtask"}

WaitCalls == {i \in DOMAIN hostCalls : hostCalls[i].op = "wait"}

\* C20: runBuilds dispatches exactly one createContainer subtask per resolved
\* architecture, all of them before the join begins, and the join waits on
\* exactly the dispatched task ids, returning only when all have closed.
C20_FanOutComplete ==
    /\ \A s1, s2 \in subtasks :
          (s1.arch = s2.arch \/ s1.task_id = s2.task_id) => s1 = s2
    /\ {s.arch : s \in subtasks} \subseteq archlist
    /\ Cardinality(SubtaskCalls) = Cardinality(subtasks)
    /\ \A t \in SubtaskIds : task[t].state # "none" <=> t \in Dispatched
    /\ WaitCalls # {} =>
          /\ Cardinality(WaitCalls) = 1
          /\ {s.arch : s \in subtasks} = archlist
          /\ waitSet = Dispatched
          /\ \A i \in SubtaskCalls, j \in WaitCalls : i < j
    /\ WaitCalls = {} => waitSet = {}
    /\ JoinReturned =>
          /\ {r.task_id : r \in results} = waitSet
          /\ \A t \in waitSet : task[t].state = "CLOSED"

C20_Witness ==
    /\ WaitCalls # {}
    /\ Cardinality(archlist) = 2
    /\ Cardinality(waitSet) = 2

\* C16: a client that does not wait (--nowait, or in the background without
\* --wait) returns None, prints no task result and stays logged in; a client
\* that waits is logged out before it returns, returns 0 and prints the task
\* result when the task succeeded, and returns non-zero without printing the
\* task result when it failed.
C16_WaitProtocol ==
    /\ cli.pc = "watching" => ~cli.logged_in
    /\ cli.pc = "done" =>
          IF cli.args.wait = "--nowait"
             \/ (cli.args.wait = "unset" /\ cli.running_in_bg)
          THEN /\ cli.rv = "None"
               /\ "Task Result" \notin Range(cli.stdout)
               /\ cli.logged_in
               /\ cli.submitted # {}
          ELSE /\ ~cli.logged_in
               /\ cli.task_success \in {"yes", "no"}
               /\ cli.task_success = "yes" =>
                     (cli.rv = "0" /\ "Task Result" \in Range(cli.stdout))
               /\ cli.task_success = "no" =>
                     (cli.rv # "0" /\ cli.rv # "None"
                      /\ "Task Result" \notin Range(cli.stdout))

C16_Witness ==
    /\ cli.pc = "done"
    /\ cli.args.wait = "unset"
    /\ ~cli.running_in_bg
    /\ cli.task_success = "no"
    /\ cli.rv = "1"
    /\ ~cli.logged_in

\* C17: parse_arguments exits with SystemExit, and nothing is submitted, when
\* --arch-override comes without --scratch; with --scratch it forwards the
\* override with its commas turned into spaces; so no submitted non-scratch
\* request carries an override.
C17_OverrideNeedsScratch ==
    /\ (cli.pc \notin {"idle", "start"} /\ cli.args.arch_override # <<>>) =>
          IF cli.args.scratch
          THEN /\ cli.exit = "none"
               /\ cli.opts.scratch
               /\ Len(cli.opts.arch_override) = Len(cli.args.arch_override)
               /\ \A i \in DOMAIN cli.args.arch_override :
                     cli.opts.arch_override[i] =
                        IF cli.args.arch_override[i] \in {",", " "}
                        THEN " " ELSE cli.args.arch_override[i]
          ELSE /\ cli.pc = "exited"
               /\ cli.exit = "SystemExit"
               /\ cli.submitted = {}
    /\ \A o \in cli.submitted : o.arch_override # <<>> => o.scratch

C17_Witness ==
    /\ cli.pc = "created"
    /\ cli.args.scratch
    /\ cli.args.arch_override = <<"x86_64", ",", "ppc64le">>
    /\ cli.submitted = {[scratch |-> TRUE,
                         arch_override |-> <<"x86_64", " ", "ppc64le">>]}

CreateBuildCalls(t) ==
    {i \in DOMAIN task[t].calls : task[t].calls[i].op = "create_build"}

\* C21: a per-arch task calls create_build at most once, and when that call
\* raised the task has failed with that error, has made no other call, has
\* uploaded nothing and contributes no result.
C21_SubmissionErrorFatal ==
    \A t \in Dispatched :
        /\ Cardinality(CreateBuildCalls(t)) <= 1
        /\ (task[t].calls # <<>> /\ task[t].build_id = 0) =>
              /\ task[t].state = "FAILED"
              /\ task[t].err = "OsbsException"
              /\ task[t].calls = <<Call("create_build", 0)>>
              /\ task[t].logs = <<>>
              /\ \A i \in DOMAIN hostCalls :
                    hostCalls[i] # [op |-> "uploadFile", by |-> t]
              /\ \A r \in results : r.task_id # t

C21_Witness ==
    \E t \in Dispatched :
        /\ task[t].state = "FAILED"
        /\ task[t].err = "OsbsException"
        /\ task[t].calls = <<Call("create_build", 0)>>
        /\ pc = "raised"
        /\ error = "OsbsException"

\* C22: the step in which the join fails and the handler raises touches no
\* subtask and makes no call on the hub, so the subtasks still running at
\* that moment go on running.
C22_NoSiblingCancellation ==
    [][ (pc = "join" /\ pc' = "raised") =>
           (task' = task /\ hostCalls' = hostCalls) ]_vars

C22_Witness ==
    /\ pc = "raised"
    /\ raisedAt = "join"
    /\ thrown \notin Cancellations
    /\ \E t \in waitSet : task[t].state = "FAILED"
    /\ \E t \in waitSet : task[t].state = "upload"

\* C23: every per-arch task constructs its external-service client at most
\* once, on its first osbs() call, every later osbs() call of that task
\* returns that same client, and no client is returned to two tasks.
C23_LazyPrivateClient ==
    /\ \A t \in SubtaskIds :
          /\ task[t].made <= 1
          /\ task[t].made = 0 <=> task[t].clients = <<>>
          /\ task[t]._osbs = <<>> <=> task[t].clients = <<>>
          /\ \A i \in DOMAIN task[t].clients :
                task[t].clients[i] = task[t]._osbs
          /\ Len(task[t].clients) =
                Cardinality({i \in DOMAIN task[t].calls :
                                task[t].calls[i].op # "uploadFile"})
    /\ \A t, u \in SubtaskIds :
          t # u => Range(task[t].clients) \cap Range(task[u].clients) = {}

C23_Witness ==
    \E t, u \in Dispatched :
        /\ t # u
        /\ Len(task[t].clients) = 3
        /\ Len(task[u].clients) = 3
        /\ task[t]._osbs # task[u]._osbs

\* C24: the handler reads the hub's event cursor once, before anything else,
\* and the build-target lookup and the tag build-config lookup are both made
\* with the event id it read, also when the hub's cursor has moved on since.
C24_Snapshot ==
    /\ events.reads = (IF pc = "start" THEN 0 ELSE 1)
    /\ pc = "start" => events.lookups = <<>>
    /\ IsPrefix([i \in DOMAIN events.lookups |-> events.lookups[i].op],
                <<"getBuildTarget", "getBuildConfig">>)
    /\ \A i \in DOMAIN events.lookups :
          events.lookups[i].event = events.event_id
    /\ pc \notin {"start", "getBuildTarget", "getArchList"} =>
          (Len(events.lookups) = 2 \/ raisedAt = "getBuildTarget")

C24_Witness ==
    /\ Len(events.lookups) = 2
    /\ events.lookups[1].event = events.lookups[2].event
    /\ events.lookups[1].at < events.lookups[2].at

\* C25: every member of a returned arch list is noarch or is itself a
\* canonical arch of the tag, and no two members have the same canonical
\* form.
C25_MembersCanonical ==
    pc = "resolved" =>
        /\ \A a \in archlist :
              a = "noarch" \/ (canonArch(a) = a /\ a \in tag_archlist(tagArches))
        /\ \A a, b \in archlist : canonArch(a) = canonArch(b) => a = b

\* C26: a scratch run that is not cancelled, in which every subtask completed
\* and no external build has failed status, calls moveContainerToScratch
\* exactly once and returns without raising.
C26_SuccessfulScratchReturns ==
    ( /\ opts.scratch
      /\ Terminated
      /\ thrown \notin Cancellations
      /\ waitSet # {}
      /\ \A t \in waitSet : task[t].state = "CLOSED"
      /\ \A t \in waitSet : builds[task[t].build_id] = "succeeded" )
    => /\ pc = "returned"
       /\ error = "none"
       /\ Cardinality({i \in DOMAIN hostCalls :
                          hostCalls[i].op = "moveContainerToScratch"}) = 1

====
